---- MODULE Spec2Model ----
(***************************************************************************)
(* Model of the multi-threaded chunk compressor                            *)
(* (src/multithreaded_compressor.cpp) and of the sequential decompressor   *)
(* (src/multithreaded_decompressor.cpp).                                   *)
(*                                                                         *)
(* The compressor's main thread reads the input into chunks, creates a     *)
(* ThreadPool of hardware_concurrency() workers, enqueues one compression  *)
(* task per chunk, calls shutdown(), sorts the results by id and writes    *)
(* one length-prefixed frame per result.  The decompressor reads the       *)
(* frames back one at a time.                                              *)
(*                                                                         *)
(* zlib is an external library.  It is modelled by a run-length codec:     *)
(* compress turns every run of equal bytes into the pair <<count, byte>>,  *)
(* uncompress expands the pairs, rejects malformed input (Z_DATA_ERROR)    *)
(* and output larger than the destination buffer (Z_BUF_ERROR).  compress  *)
(* may also fail for lack of memory (Z_MEM_ERROR), which is a choice of    *)
(* the environment.                                                        *)
(***************************************************************************)
EXTENDS Integers, Sequences, FiniteSets, TLC

(***************************************************************************)
(* Program constants and bounds of the model.                              *)
(***************************************************************************)
\* const size_t CHUNK_SIZE (1024 * 1024 in the source, scaled down here).
CHUNK_SIZE == 2

\* sizeof(uint32_t): the width in bytes of a frame's length field.
SIZEOF_SIZE == 4

\* Longest input file of the compressor, in bytes.
MaxInputLen == 4

\* Largest value std::thread::hardware_concurrency() returns (it may return 0).
MaxWorkers == 2

\* Longest container handed to the decompressor on its own, in bytes.
MaxContainerLen == 10

\* Byte values of the compressor's input files.
InputByte == {0, 1}

\* Byte values of the containers handed to the decompressor on its own.
ContainerByte == {0, 1, 2}

BoundedSeq(S, n) == UNION {[1..k -> S] : k \in 0..n}

\* The ids a task's chunk can carry: the chunks of the longest input, and one
\* more for the task of the late client.
TaskIds == 0..((MaxInputLen + CHUNK_SIZE - 1) \div CHUNK_SIZE)

NoTask == [id |-> -1, data |-> <<>>]

(***************************************************************************)
(* The codec (zlib), as a run-length code.                                 *)
(***************************************************************************)
\* Length of the run of equal bytes s starts with, at most 255 (s non-empty).
RunLength(s) ==
  CHOOSE n \in 1..Len(s) :
    /\ n <= 255
    /\ \A i \in 1..n : s[i] = s[1]
    /\ (n = Len(s) \/ n = 255 \/ s[n + 1] # s[1])

RECURSIVE Encode(_)
Encode(s) ==
  IF s = <<>> THEN <<>>
  ELSE LET n == RunLength(s)
       IN <<n, s[1]>> \o Encode(SubSeq(s, n + 1, Len(s)))

RECURSIVE Decode(_)
Decode(c) ==
  IF Len(c) < 2 THEN <<>>
  ELSE [i \in 1..c[1] |-> c[2]] \o Decode(SubSeq(c, 3, Len(c)))

WellFormed(c) ==
  /\ Len(c) % 2 = 0
  /\ \A i \in 1..Len(c) : (i % 2 = 1) => c[i] > 0

\* zlib's compress(dest, &destLen, source, sourceLen); mem is whether the
\* library gets the memory it asks for.
compress(source, mem) ==
  IF mem THEN [rc |-> "Z_OK", data |-> Encode(source)]
  ELSE [rc |-> "Z_MEM_ERROR", data |-> <<>>]

\* zlib's uncompress(dest, &destLen, source, sourceLen).
uncompress(source, destLen) ==
  IF ~WellFormed(source) THEN [rc |-> "Z_DATA_ERROR", data |-> <<>>]
  ELSE IF Len(Decode(source)) > destLen THEN [rc |-> "Z_BUF_ERROR", data |-> <<>>]
  ELSE [rc |-> "Z_OK", data |-> Decode(source)]

\* std::vector<unsigned char> compressData(input): the compressed bytes, or
\* a std::runtime_error thrown.
compressData(input, mem) ==
  IF input = <<>> THEN [thrown |-> FALSE, data |-> <<>>]
  ELSE LET r == compress(input, mem)
       IN IF r.rc # "Z_OK" THEN [thrown |-> TRUE, data |-> <<>>]
          ELSE [thrown |-> FALSE, data |-> r.data]

\* std::vector<unsigned char> decompressData(input).
decompressData(input) ==
  IF input = <<>> THEN [thrown |-> FALSE, data |-> <<>>]
  ELSE LET r == uncompress(input, CHUNK_SIZE)
       IN IF r.rc # "Z_OK" THEN [thrown |-> TRUE, data |-> <<>>]
          ELSE [thrown |-> FALSE, data |-> r.data]

(***************************************************************************)
(* The frame format.                                                       *)
(***************************************************************************)
\* The bytes of "uint32_t size = data.size()" in memory (little-endian), as
\* out.write puts them: the low 32 bits of n, the fourth byte being taken
\* modulo 256.
Uint32Bytes(n) ==
  <<n % 256, (n \div 256) % 256, (n \div 65536) % 256, (n \div 16777216) % 256>>

\* The uint32_t in.read fills from SIZEOF_SIZE bytes.
Uint32Value(b) == b[1] + 256 * b[2] + 65536 * b[3] + 16777216 * b[4]

\* The two out.write calls of the write loop, for one compressed chunk.
Frame(data) == Uint32Bytes(Len(data)) \o data

(***************************************************************************)
(* std::sort of compressed_chunks by id (ids are distinct).                *)
(***************************************************************************)
RECURSIVE InsertById(_, _)
InsertById(c, s) ==
  IF s = <<>> THEN <<c>>
  ELSE IF c.id < Head(s).id THEN <<c>> \o s
  ELSE <<Head(s)>> \o InsertById(c, Tail(s))

RECURSIVE InsertionSort(_)
InsertionSort(s) ==
  IF s = <<>> THEN <<>> ELSE InsertById(Head(s), InsertionSort(Tail(s)))

\* A write phase that takes the results in the order they came in.
NoSort(s) == s

SortById(s) == InsertionSort(s)

(***************************************************************************)
(* The decisions of the thread pool.                                       *)
(***************************************************************************)
\* An enqueue that pushes whatever stop says.
EnqueueAlways(stopping) == TRUE

\* enqueue: "if (stop) return;" under the queue lock.
EnqueueAccepts(stopping) == ~stopping

\* worker_thread: the predicate of condition.wait.
WaitPredicate(stopping, queue) == stopping \/ queue # <<>>

\* A worker that returns as soon as stop is set, tasks queued or not.
ExitOnStop(stopping, queue) == stopping

\* worker_thread: "if (this->stop && this->tasks.empty()) return;".
ShouldExit(stopping, queue) == stopping /\ queue = <<>>

\* A worker without the catch clause: the thread ends with the exception.
AfterThrowDies == "exited"

\* worker_thread: where the worker goes when task() throws: the catch
\* clause logs and the loop goes on.
AfterThrow == "lock"

\* A second shutdown() that goes through the whole shutdown again.
ShutdownAgain(stopping) == FALSE

\* shutdown: "if (stop) return;".
AlreadyStopping(stopping) == stopping

\* A worker that keeps the queue lock while it runs the task.
QueueLockKept(w) == w

\* worker_thread: the owner of queue_mutex once the block that took the
\* task is left: the unique_lock is destroyed, the lock is free.
QueueLockAfterTake(w) == 0

\* A pop that leaves the task in the queue.
NoPop(queue) == queue

\* worker_thread: tasks.pop().
AfterPop(queue) == Tail(queue)

\* A task that does not wait for results_mutex.
ResultsLockIgnored(owner) == TRUE

\* The task's std::lock_guard on results_mutex gets the lock when it is free.
ResultsLockFree(owner) == owner = 0

\* A read phase that makes a last chunk of whatever the short read got.
EmitLastAlways(gcount) == TRUE

\* main: "if (in.gcount() > 0)": the short read's bytes make the last chunk.
EmitLastChunk(gcount) == gcount > 0

\* A main that goes on to the pool with no chunk.
AlwaysSomething(c) == FALSE

\* main: "if (chunks.empty())".
NothingToCompress(c) == c = <<>>

\* A decompressor that takes whatever the read of the data got.
ShortReadAccepted(gcount, size) == FALSE

\* The decompressor's main: "if (in.gcount() != compressedChunkSize)".
ShortRead(gcount, size) == gcount # size

(***************************************************************************)
(* State.                                                                  *)
(***************************************************************************)
VARIABLES
  input,              \* the bytes of the compressor's input file
  hw,                 \* what std::thread::hardware_concurrency() returns
  pc,                 \* where the compressor's main thread is
  rpos,               \* read position of the stream in
  chunks,             \* std::vector<Chunk> chunks
  id_counter,         \* size_t id_counter
  idx,                \* position of the enqueue loop in chunks (from 1)
  workers,            \* ThreadPool::workers: where each worker thread is
  task,               \* each worker's local task (the chunk it captured)
  compressed_data,    \* each task's local compressed_data
  tasks,              \* ThreadPool::tasks
  stop,               \* ThreadPool::stop
  queue_mutex,        \* ThreadPool::queue_mutex: its owner, 0 when free
  results_mutex,      \* results_mutex: its owner, 0 when free
  compressed_chunks,  \* std::vector<CompressedChunk> compressed_chunks
  joinIdx,            \* position of shutdown's join loop in workers
  in_dtor,            \* shutdown() was called by ~ThreadPool
  wrIdx,              \* position of the write loop in compressed_chunks
  container,          \* the bytes of the compressor's output file
  exitcode,           \* the compressor's exit status, -1 while it runs
  late,               \* where the second client thread's enqueue call is
  accepted,           \* history: ids of the tasks enqueue pushed
  failed,             \* history: ids of the tasks whose compressData threw
  executed,           \* history: how often each task has run to its end
  arrival,            \* history: ids in the order the results were inserted
  written,            \* history: ids of the frames written, in order
  dpc,                \* where the decompressor is
  dpos,               \* read position of the decompressor's stream in
  compressedChunkSize,\* uint32_t compressedChunkSize
  compressedData,     \* std::vector<unsigned char> compressedData
  partialLength,      \* history: a length field was read with 1..3 bytes left
  framesDecoded,      \* history: number of frames handed to decompressData
  output,             \* the bytes of the decompressor's output file
  dexit               \* the decompressor's exit status, -1 while it runs

cvars == <<input, hw, pc, rpos, chunks, id_counter, idx, workers, task,
           compressed_data, tasks, stop, queue_mutex, results_mutex,
           compressed_chunks, joinIdx, in_dtor, wrIdx, container, exitcode,
           late, accepted, failed, executed, arrival, written>>

dvars == <<dpc, dpos, compressedChunkSize, compressedData, partialLength,
           framesDecoded, output, dexit>>

vars == <<cvars, dvars>>

poolvars == <<workers, task, compressed_data, tasks, stop, queue_mutex,
              results_mutex, compressed_chunks, accepted, failed, executed,
              arrival>>

mainvars == <<pc, rpos, chunks, id_counter, idx, joinIdx, in_dtor, wrIdx,
              container, exitcode, written>>

Waiting == {w \in DOMAIN workers : workers[w] = "waiting"}

(***************************************************************************)
(* Initial states.                                                         *)
(***************************************************************************)
DecompressorIdle ==
  /\ dpc = "idle"
  /\ dpos = 0
  /\ compressedChunkSize = 0
  /\ compressedData = <<>>
  /\ partialLength = FALSE
  /\ framesDecoded = 0
  /\ output = <<>>
  /\ dexit = -1

CompressorStart ==
  /\ rpos = 0
  /\ chunks = <<>>
  /\ id_counter = 0
  /\ idx = 1
  /\ workers = <<>>
  /\ task = <<>>
  /\ compressed_data = <<>>
  /\ tasks = <<>>
  /\ stop = FALSE
  /\ queue_mutex = 0
  /\ results_mutex = 0
  /\ compressed_chunks = <<>>
  /\ joinIdx = 1
  /\ in_dtor = FALSE
  /\ wrIdx = 1
  /\ late = "none"
  /\ accepted = {}
  /\ failed = {}
  /\ executed = [i \in TaskIds |-> 0]
  /\ arrival = <<>>
  /\ written = <<>>

Init ==
  /\ input \in BoundedSeq(InputByte, MaxInputLen)
  /\ hw \in 0..MaxWorkers
  /\ pc = "read"
  /\ container = <<>>
  /\ exitcode = -1
  /\ CompressorStart
  /\ DecompressorIdle

(***************************************************************************)
(* Compressor, phase 1: read the file into chunks.                         *)
(***************************************************************************)
\* One in.read of CHUNK_SIZE bytes.  A full read appends a chunk and the
\* loop goes on; a short read ends the loop, and the bytes it got
\* (in.gcount() > 0) make the last chunk.
MRead ==
  /\ pc = "read"
  /\ LET gcount == IF Len(input) - rpos < CHUNK_SIZE THEN Len(input) - rpos
                   ELSE CHUNK_SIZE
         buffer == SubSeq(input, rpos + 1, rpos + gcount)
     IN /\ rpos' = rpos + gcount
        /\ IF gcount = CHUNK_SIZE
           THEN /\ chunks' = Append(chunks, [id |-> id_counter, data |-> buffer])
                /\ id_counter' = id_counter + 1
                /\ pc' = "read"
           ELSE /\ IF EmitLastChunk(gcount)
                   THEN /\ chunks' = Append(chunks, [id |-> id_counter, data |-> buffer])
                        /\ id_counter' = id_counter + 1
                   ELSE UNCHANGED <<chunks, id_counter>>
                /\ pc' = "check"
  /\ UNCHANGED <<idx, joinIdx, in_dtor, wrIdx, container, exitcode, written>>
  /\ UNCHANGED <<input, hw, late, poolvars, dvars>>

\* "if (chunks.empty()) return 0;": the output file was opened, so it
\* exists and is empty.
MCheckEmpty ==
  /\ pc = "check"
  /\ IF NothingToCompress(chunks)
     THEN pc' = "done" /\ exitcode' = 0
     ELSE pc' = "pool" /\ UNCHANGED exitcode
  /\ UNCHANGED <<rpos, chunks, id_counter, idx, joinIdx, in_dtor, wrIdx,
                 container, written>>
  /\ UNCHANGED <<input, hw, late, poolvars, dvars>>

(***************************************************************************)
(* Compressor, phase 2: the thread pool.                                   *)
(***************************************************************************)
\* ThreadPool pool(std::thread::hardware_concurrency()).
MCreatePool ==
  /\ pc = "pool"
  /\ workers' = [w \in 1..hw |-> "lock"]
  /\ task' = [w \in 1..hw |-> NoTask]
  /\ compressed_data' = [w \in 1..hw |-> <<>>]
  /\ pc' = "enqueue"
  /\ UNCHANGED <<rpos, chunks, id_counter, idx, joinIdx, in_dtor, wrIdx,
                 container, exitcode, written>>
  /\ UNCHANGED <<tasks, stop, queue_mutex, results_mutex, compressed_chunks,
                 accepted, failed, executed, arrival>>
  /\ UNCHANGED <<input, hw, late, dvars>>

\* pool.enqueue(task of chunks[idx]), up to the release of the queue lock.
MEnqueue ==
  /\ pc = "enqueue"
  /\ idx <= Len(chunks)
  /\ queue_mutex = 0
  /\ IF EnqueueAccepts(stop)
     THEN /\ tasks' = Append(tasks, chunks[idx])
          /\ accepted' = accepted \cup {chunks[idx].id}
          /\ pc' = "notify"
          /\ UNCHANGED idx
     ELSE /\ idx' = idx + 1
          /\ UNCHANGED <<tasks, accepted, pc>>
  /\ UNCHANGED <<rpos, chunks, id_counter, joinIdx, in_dtor, wrIdx, container,
                 exitcode, written>>
  /\ UNCHANGED <<workers, task, compressed_data, stop, queue_mutex,
                 results_mutex, compressed_chunks, failed, executed, arrival>>
  /\ UNCHANGED <<input, hw, late, dvars>>

\* The workers condition.notify_one() may wake: any one waiting worker, or
\* none when no worker waits.
NotifyOne ==
  IF Waiting = {} THEN {workers}
  ELSE {[workers EXCEPT ![w] = "lock"] : w \in Waiting}

\* A shutdown that wakes nobody.
NotifyNobody == workers

\* condition.notify_all().
NotifyAll == [w \in DOMAIN workers |->
                IF workers[w] = "waiting" THEN "lock" ELSE workers[w]]

\* enqueue's condition.notify_one(), and the loop's next turn.
MNotifyOne ==
  /\ pc = "notify"
  /\ workers' \in NotifyOne
  /\ idx' = idx + 1
  /\ pc' = "enqueue"
  /\ UNCHANGED <<rpos, chunks, id_counter, joinIdx, in_dtor, wrIdx, container,
                 exitcode, written>>
  /\ UNCHANGED <<task, compressed_data, tasks, stop, queue_mutex,
                 results_mutex, compressed_chunks, accepted, failed, executed,
                 arrival>>
  /\ UNCHANGED <<input, hw, late, dvars>>

\* The end of the enqueue loop: main goes on to pool.shutdown().
MLoopEnd ==
  /\ pc = "enqueue"
  /\ idx > Len(chunks)
  /\ pc' = "shutdown"
  /\ UNCHANGED <<rpos, chunks, id_counter, idx, joinIdx, in_dtor, wrIdx,
                 container, exitcode, written>>
  /\ UNCHANGED <<input, hw, late, poolvars, dvars>>

\* shutdown(): "if (stop) return;", else stop = true under the queue lock.
\* Called by main, and again by ~ThreadPool when main returns.
MShutdown ==
  /\ pc = "shutdown"
  /\ IF AlreadyStopping(stop)
     THEN /\ IF in_dtor THEN pc' = "done" /\ exitcode' = 0
                        ELSE pc' = "sort" /\ UNCHANGED exitcode
          /\ UNCHANGED stop
     ELSE /\ queue_mutex = 0
          /\ stop' = TRUE
          /\ pc' = "notify_all"
          /\ UNCHANGED exitcode
  /\ UNCHANGED <<rpos, chunks, id_counter, idx, joinIdx, in_dtor, wrIdx,
                 container, written>>
  /\ UNCHANGED <<workers, task, compressed_data, tasks, queue_mutex,
                 results_mutex, compressed_chunks, accepted, failed, executed,
                 arrival>>
  /\ UNCHANGED <<input, hw, late, dvars>>

\* shutdown(): condition.notify_all().
MNotifyAll ==
  /\ pc = "notify_all"
  /\ workers' = NotifyAll
  /\ joinIdx' = 1
  /\ pc' = "join"
  /\ UNCHANGED <<rpos, chunks, id_counter, idx, in_dtor, wrIdx, container,
                 exitcode, written>>
  /\ UNCHANGED <<task, compressed_data, tasks, stop, queue_mutex,
                 results_mutex, compressed_chunks, accepted, failed, executed,
                 arrival>>
  /\ UNCHANGED <<input, hw, late, dvars>>

\* shutdown(): worker.join() returns once that worker has terminated.
MJoin ==
  /\ pc = "join"
  /\ joinIdx <= Len(workers)
  /\ workers[joinIdx] = "exited"
  /\ joinIdx' = joinIdx + 1
  /\ UNCHANGED <<pc, rpos, chunks, id_counter, idx, in_dtor, wrIdx, container,
                 exitcode, written>>
  /\ UNCHANGED <<input, hw, late, poolvars, dvars>>

\* shutdown() returns: to main, or to the destructor and so to the end.
MShutdownReturn ==
  /\ pc = "join"
  /\ joinIdx > Len(workers)
  /\ IF in_dtor THEN pc' = "done" /\ exitcode' = 0
                ELSE pc' = "sort" /\ UNCHANGED exitcode
  /\ UNCHANGED <<rpos, chunks, id_counter, idx, joinIdx, in_dtor, wrIdx,
                 container, written>>
  /\ UNCHANGED <<input, hw, late, poolvars, dvars>>

(***************************************************************************)
(* The worker threads: ThreadPool::worker_thread.                          *)
(***************************************************************************)
\* std::unique_lock<std::mutex> lock(queue_mutex), also when a woken
\* worker takes the lock again inside condition.wait.
WLock(w) ==
  /\ workers[w] = "lock"
  /\ queue_mutex = 0
  /\ queue_mutex' = w
  /\ workers' = [workers EXCEPT ![w] = "locked"]
  /\ UNCHANGED <<task, compressed_data, tasks, stop, results_mutex,
                 compressed_chunks, accepted, failed, executed, arrival>>
  /\ UNCHANGED <<input, hw, late, mainvars, dvars>>

\* condition.wait with a false predicate: release the lock and block.
WWait(w) ==
  /\ workers[w] = "locked"
  /\ ~WaitPredicate(stop, tasks)
  /\ queue_mutex' = 0
  /\ workers' = [workers EXCEPT ![w] = "waiting"]
  /\ UNCHANGED <<task, compressed_data, tasks, stop, results_mutex,
                 compressed_chunks, accepted, failed, executed, arrival>>
  /\ UNCHANGED <<input, hw, late, mainvars, dvars>>

\* A spurious wakeup, which condition.wait allows.
WSpurious(w) ==
  /\ workers[w] = "waiting"
  /\ workers' = [workers EXCEPT ![w] = "lock"]
  /\ UNCHANGED <<task, compressed_data, tasks, stop, queue_mutex,
                 results_mutex, compressed_chunks, accepted, failed, executed,
                 arrival>>
  /\ UNCHANGED <<input, hw, late, mainvars, dvars>>

\* The predicate holds, stop is set and the queue is empty: return.
WExit(w) ==
  /\ workers[w] = "locked"
  /\ WaitPredicate(stop, tasks)
  /\ ShouldExit(stop, tasks)
  /\ queue_mutex' = 0
  /\ workers' = [workers EXCEPT ![w] = "exited"]
  /\ UNCHANGED <<task, compressed_data, tasks, stop, results_mutex,
                 compressed_chunks, accepted, failed, executed, arrival>>
  /\ UNCHANGED <<input, hw, late, mainvars, dvars>>

\* The predicate holds and the worker stays: take the front task and release
\* the lock.
WTake(w) ==
  /\ workers[w] = "locked"
  /\ WaitPredicate(stop, tasks)
  /\ ~ShouldExit(stop, tasks)
  /\ tasks # <<>>
  /\ task' = [task EXCEPT ![w] = Head(tasks)]
  /\ tasks' = AfterPop(tasks)
  /\ queue_mutex' = QueueLockAfterTake(w)
  /\ workers' = [workers EXCEPT ![w] = "compress"]
  /\ UNCHANGED <<compressed_data, stop, results_mutex, compressed_chunks,
                 accepted, failed, executed, arrival>>
  /\ UNCHANGED <<input, hw, late, mainvars, dvars>>

\* task(): compressData(chunk.data).  When it throws, the worker's catch
\* clause logs the error and the task is over.
WCompress(w) ==
  /\ workers[w] = "compress"
  /\ \E mem \in BOOLEAN :
       LET r == compressData(task[w].data, mem)
       IN IF r.thrown
          THEN /\ failed' = failed \cup {task[w].id}
               /\ executed' = [executed EXCEPT ![task[w].id] = @ + 1]
               /\ task' = [task EXCEPT ![w] = NoTask]
               /\ workers' = [workers EXCEPT ![w] = AfterThrow]
               /\ UNCHANGED compressed_data
          ELSE /\ compressed_data' = [compressed_data EXCEPT ![w] = r.data]
               /\ workers' = [workers EXCEPT ![w] = "lock_results"]
               /\ UNCHANGED <<failed, executed, task>>
  /\ UNCHANGED <<tasks, stop, queue_mutex, results_mutex, compressed_chunks,
                 accepted, arrival>>
  /\ UNCHANGED <<input, hw, late, mainvars, dvars>>

\* task(): std::lock_guard<std::mutex> lock(results_mutex).
WLockResults(w) ==
  /\ workers[w] = "lock_results"
  /\ ResultsLockFree(results_mutex)
  /\ results_mutex' = w
  /\ workers' = [workers EXCEPT ![w] = "insert"]
  /\ UNCHANGED <<task, compressed_data, tasks, stop, queue_mutex,
                 compressed_chunks, accepted, failed, executed, arrival>>
  /\ UNCHANGED <<input, hw, late, mainvars, dvars>>

\* task(): compressed_chunks.push_back, the release of results_mutex, and
\* the return to the worker's loop.
WInsert(w) ==
  /\ workers[w] = "insert"
  /\ compressed_chunks' = Append(compressed_chunks,
                                 [id |-> task[w].id, data |-> compressed_data[w]])
  /\ arrival' = Append(arrival, task[w].id)
  /\ executed' = [executed EXCEPT ![task[w].id] = @ + 1]
  /\ results_mutex' = 0
  /\ task' = [task EXCEPT ![w] = NoTask]
  /\ compressed_data' = [compressed_data EXCEPT ![w] = <<>>]
  /\ workers' = [workers EXCEPT ![w] = "lock"]
  /\ UNCHANGED <<tasks, stop, queue_mutex, accepted, failed>>
  /\ UNCHANGED <<input, hw, late, mainvars, dvars>>

(***************************************************************************)
(* Compressor, phase 3: sort and write.                                    *)
(***************************************************************************)
\* std::sort(compressed_chunks.begin(), compressed_chunks.end(), by id).
MSort ==
  /\ pc = "sort"
  /\ compressed_chunks' = SortById(compressed_chunks)
  /\ wrIdx' = 1
  /\ pc' = "write"
  /\ UNCHANGED <<rpos, chunks, id_counter, idx, joinIdx, in_dtor, container,
                 exitcode, written>>
  /\ UNCHANGED <<workers, task, compressed_data, tasks, stop, queue_mutex,
                 results_mutex, accepted, failed, executed, arrival>>
  /\ UNCHANGED <<input, hw, late, dvars>>

\* One turn of the write loop: the size, then the data.
MWrite ==
  /\ pc = "write"
  /\ wrIdx <= Len(compressed_chunks)
  /\ container' = container \o Frame(compressed_chunks[wrIdx].data)
  /\ written' = Append(written, compressed_chunks[wrIdx].id)
  /\ wrIdx' = wrIdx + 1
  /\ UNCHANGED <<pc, rpos, chunks, id_counter, idx, joinIdx, in_dtor, exitcode>>
  /\ UNCHANGED <<input, hw, late, poolvars, dvars>>

\* out.close(); return 0: the pool's destructor runs, and calls shutdown().
MClose ==
  /\ pc = "write"
  /\ wrIdx > Len(compressed_chunks)
  /\ in_dtor' = TRUE
  /\ pc' = "shutdown"
  /\ UNCHANGED <<rpos, chunks, id_counter, idx, joinIdx, wrIdx, container,
                 exitcode, written>>
  /\ UNCHANGED <<input, hw, late, poolvars, dvars>>

Main ==
  \/ MRead
  \/ MCheckEmpty
  \/ MCreatePool
  \/ MEnqueue
  \/ MNotifyOne
  \/ MLoopEnd
  \/ MShutdown
  \/ MNotifyAll
  \/ MJoin
  \/ MShutdownReturn
  \/ MSort
  \/ MWrite
  \/ MClose

CompressorNext ==
  \/ Main
  \/ \E w \in DOMAIN workers : WLock(w)
  \/ \E w \in DOMAIN workers : WWait(w)
  \/ \E w \in DOMAIN workers : WSpurious(w)
  \/ \E w \in DOMAIN workers : WExit(w)
  \/ \E w \in DOMAIN workers : WTake(w)
  \/ \E w \in DOMAIN workers : WCompress(w)
  \/ \E w \in DOMAIN workers : WLockResults(w)
  \/ \E w \in DOMAIN workers : WInsert(w)

(***************************************************************************)
(* A second client thread that calls pool.enqueue once, at any time in the *)
(* pool's life: before shutdown() or after it has begun.                   *)
(***************************************************************************)
LateChunk == [id |-> Len(chunks), data |-> <<0>>]

PoolAlive ==
  /\ pc \in {"enqueue", "notify", "shutdown", "notify_all", "join", "sort", "write"}
  /\ ~in_dtor

\* enqueue(task of LateChunk), up to the release of the queue lock.
LatePush ==
  /\ late = "none"
  /\ PoolAlive
  /\ queue_mutex = 0
  /\ IF EnqueueAccepts(stop)
     THEN /\ tasks' = Append(tasks, LateChunk)
          /\ accepted' = accepted \cup {LateChunk.id}
          /\ late' = "notify"
     ELSE /\ late' = "dropped"
          /\ UNCHANGED <<tasks, accepted>>
  /\ UNCHANGED <<workers, task, compressed_data, stop, queue_mutex,
                 results_mutex, compressed_chunks, failed, executed, arrival>>
  /\ UNCHANGED <<input, hw, mainvars, dvars>>

\* enqueue's condition.notify_one().
LateNotify ==
  /\ late = "notify"
  /\ workers' \in NotifyOne
  /\ late' = "accepted"
  /\ UNCHANGED <<task, compressed_data, tasks, stop, queue_mutex,
                 results_mutex, compressed_chunks, accepted, failed, executed,
                 arrival>>
  /\ UNCHANGED <<input, hw, mainvars, dvars>>

(***************************************************************************)
(* The decompressor's main.                                                *)
(***************************************************************************)
\* The decompressor is started on the file the compressor wrote.
DStart ==
  /\ pc = "done"
  /\ dpc = "idle"
  /\ dpc' = "peek"
  /\ UNCHANGED <<dpos, compressedChunkSize, compressedData, partialLength,
                 framesDecoded, output, dexit>>
  /\ UNCHANGED cvars

\* "while (in.peek() != EOF)".
DPeek ==
  /\ dpc = "peek"
  /\ dpc' = IF dpos = Len(container) THEN "close" ELSE "read_size"
  /\ UNCHANGED <<dpos, compressedChunkSize, compressedData, partialLength,
                 framesDecoded, output, dexit>>
  /\ UNCHANGED cvars

\* in.read of the size: a read that runs into the end of the file gets the
\* bytes that are left and sets eofbit.
DReadSize ==
  /\ dpc = "read_size"
  /\ LET left == Len(container) - dpos
         gcount == IF left < SIZEOF_SIZE THEN left ELSE SIZEOF_SIZE
         eof == left < SIZEOF_SIZE
     IN /\ dpos' = dpos + gcount
        /\ partialLength' = (partialLength \/ (0 < gcount /\ gcount < SIZEOF_SIZE))
        /\ IF gcount # SIZEOF_SIZE
           THEN /\ IF eof
                   THEN dpc' = "close" /\ UNCHANGED dexit
                   ELSE dpc' = "done" /\ dexit' = 1
                /\ UNCHANGED compressedChunkSize
           ELSE /\ compressedChunkSize' =
                     Uint32Value(SubSeq(container, dpos + 1, dpos + SIZEOF_SIZE))
                /\ dpc' = "read_data"
                /\ UNCHANGED dexit
  /\ UNCHANGED <<compressedData, framesDecoded, output>>
  /\ UNCHANGED cvars

\* in.read of compressedChunkSize bytes of data.
DReadData ==
  /\ dpc = "read_data"
  /\ LET left == Len(container) - dpos
         gcount == IF left < compressedChunkSize THEN left ELSE compressedChunkSize
     IN /\ dpos' = dpos + gcount
        /\ IF ShortRead(gcount, compressedChunkSize)
           THEN /\ dpc' = "done"
                /\ dexit' = 1
                /\ UNCHANGED compressedData
           ELSE /\ compressedData' = SubSeq(container, dpos + 1, dpos + gcount)
                /\ dpc' = "decode"
                /\ UNCHANGED dexit
  /\ UNCHANGED <<compressedChunkSize, partialLength, framesDecoded, output>>
  /\ UNCHANGED cvars

\* decompressData(compressedData) and out.write, or the catch clause.
DDecode ==
  /\ dpc = "decode"
  /\ framesDecoded' = framesDecoded + 1
  /\ LET r == decompressData(compressedData)
     IN IF r.thrown
        THEN /\ dpc' = "done"
             /\ dexit' = 1
             /\ UNCHANGED output
        ELSE /\ output' = output \o r.data
             /\ dpc' = "peek"
             /\ UNCHANGED dexit
  /\ UNCHANGED <<dpos, compressedChunkSize, compressedData, partialLength>>
  /\ UNCHANGED cvars

\* After the loop: close the streams, return 0.
DClose ==
  /\ dpc = "close"
  /\ dpc' = "done"
  /\ dexit' = 0
  /\ UNCHANGED <<dpos, compressedChunkSize, compressedData, partialLength,
                 framesDecoded, output>>
  /\ UNCHANGED cvars

DecompressorNext ==
  \/ DStart
  \/ DPeek
  \/ DReadSize
  \/ DReadData
  \/ DDecode
  \/ DClose

(***************************************************************************)
(* Specifications.                                                         *)
(***************************************************************************)
\* The compressor on every input, then the decompressor on what it wrote.
Next == CompressorNext \/ DecompressorNext

Spec == Init /\ [][Next]_vars

\* The decompressor on every container, written by the compressor or not.
InitDec ==
  /\ input = <<>>
  /\ hw = 0
  /\ pc = "done"
  /\ container \in BoundedSeq(ContainerByte, MaxContainerLen)
  /\ exitcode = 0
  /\ CompressorStart
  /\ DecompressorIdle

SpecDec == InitDec /\ [][DecompressorNext]_vars

\* The compressor with a second client of the pool.  The bytes of the input
\* play no part in what the pool does, so they are all 0 here.
InitLate ==
  /\ Init
  /\ \A i \in 1..Len(input) : input[i] = 0

NextLate == CompressorNext \/ LatePush \/ LateNotify

SpecLate == InitLate /\ [][NextLate]_vars

(***************************************************************************)
(* Vocabulary of the properties.                                           *)
(***************************************************************************)
\* main's call of pool.shutdown() has returned.
ShutdownReturned == pc \in {"sort", "write"} \/ in_dtor

Ids(s) == {s[i].id : i \in 1..Len(s)}

Ascending(ids) == \A i \in 2..Len(ids) : ids[i - 1] < ids[i]

\* The frames of the chunks with the given ids, one after the other.
RECURSIVE FramesOf(_)
FramesOf(ids) ==
  IF ids = <<>> THEN <<>>
  ELSE Frame(Encode(chunks[Head(ids) + 1].data)) \o FramesOf(Tail(ids))

\* The container a given input stands for: the frames of its consecutive
\* CHUNK_SIZE-byte pieces, the last one possibly shorter.
RECURSIVE ContainerOf(_)
ContainerOf(bytes) ==
  IF bytes = <<>> THEN <<>>
  ELSE LET n == IF Len(bytes) < CHUNK_SIZE THEN Len(bytes) ELSE CHUNK_SIZE
       IN Frame(Encode(SubSeq(bytes, 1, n)))
            \o ContainerOf(SubSeq(bytes, n + 1, Len(bytes)))

\* Every step but a spurious wakeup.
ProgressNext ==
  \/ Main
  \/ \E w \in DOMAIN workers :
       WLock(w) \/ WWait(w) \/ WExit(w) \/ WTake(w) \/ WCompress(w)
         \/ WLockResults(w) \/ WInsert(w)

(***************************************************************************)
(* C1.  Shutdown barrier: for a pool with at least one worker, once        *)
(* shutdown() has returned every task enqueued before it has run to its    *)
(* end, the task queue is empty and every worker thread has terminated.    *)
(***************************************************************************)
ShutdownBarrier ==
  (hw > 0 /\ ShutdownReturned) =>
    /\ \A id \in accepted : executed[id] > 0
    /\ \A w \in DOMAIN workers : task[w] = NoTask
    /\ tasks = <<>>
    /\ Len(workers) = hw
    /\ \A w \in DOMAIN workers : workers[w] = "exited"

\* shutdown() has just returned to main, two workers, two tasks enqueued.
ShutdownBarrierWitness ==
  /\ pc = "sort"
  /\ hw = 2
  /\ Cardinality(accepted) = 2

(***************************************************************************)
(* C2.  Output order: the frames are written in strictly ascending chunk   *)
(* id, whatever order the tasks completed in; each frame written is the    *)
(* frame of the chunk with that id; and frames are written only after the  *)
(* sort, from the sorted collection.                                       *)
(***************************************************************************)
OutputOrder ==
  /\ Ascending(written)
  /\ container = FramesOf(written)
  /\ written # <<>> => (pc = "write" \/ in_dtor)
  /\ (pc = "write" \/ in_dtor) =>
       /\ Ascending([i \in 1..Len(compressed_chunks) |-> compressed_chunks[i].id])
       /\ \A i \in 1..Len(written) : written[i] = compressed_chunks[i].id

\* Two frames are written although the second chunk's result came in first.
OutputOrderWitness ==
  /\ pc = "done"
  /\ Len(written) = 2
  /\ Len(arrival) = 2
  /\ arrival[1] > arrival[2]

(***************************************************************************)
(* C3.  ResultSet completeness: once shutdown() has returned and every     *)
(* task of the run has been executed, compressed_chunks has one entry per  *)
(* chunk, no id twice, and every id of 0..N-1.                             *)
(***************************************************************************)
ResultSetComplete ==
  (ShutdownReturned /\ \A i \in 1..Len(chunks) : executed[chunks[i].id] > 0) =>
    /\ Len(compressed_chunks) = Len(chunks)
    /\ Cardinality(Ids(compressed_chunks)) = Len(compressed_chunks)
    /\ Ids(compressed_chunks) = 0..(Len(chunks) - 1)

(***************************************************************************)
(* C4.  Codec failure is escalated: when compressData fails for a chunk,   *)
(* the compressor ends with a failure status, and it writes no container   *)
(* that lacks that chunk's frame.                                          *)
(***************************************************************************)
CodecFailureEscalated ==
  (pc = "done" /\ failed # {}) =>
    /\ exitcode # 0
    /\ \A id \in failed : written # <<>> => \E i \in 1..Len(written) : written[i] = id

(***************************************************************************)
(* C5.  A truncated length field is fatal: when the decompressor reads a   *)
(* length field with at least 1 and fewer than SIZEOF_SIZE bytes left, it  *)
(* ends with the failure status.                                           *)
(***************************************************************************)
TruncatedLengthFatal ==
  (dpc = "done" /\ partialLength) => dexit = 1

(***************************************************************************)
(* C6.  Round trip: the decompressor, run on the container the compressor  *)
(* wrote, succeeds and its output equals the compressor's input.           *)
(***************************************************************************)
RoundTrip ==
  dpc = "done" => (dexit = 0 /\ output = input)

(***************************************************************************)
(* C7.  Deterministic output: the container a finished run has written     *)
(* depends on the input alone, and neither on the number of workers nor    *)
(* on the schedule.  A run with one worker and no failure writes           *)
(* ContainerOf(input), so any two runs agree exactly when every run        *)
(* writes that.                                                            *)
(***************************************************************************)
DeterministicOutput ==
  pc = "done" => container = ContainerOf(input)

(***************************************************************************)
(* C8.  Submit after shutdown is a silent drop: an enqueue call that finds *)
(* stop set returns normally, leaves the task queue and the workers as     *)
(* they are, and its task is never taken, run or given a result.           *)
(***************************************************************************)
SubmitAfterShutdownDropped ==
  /\ [][(late = "none" /\ late' # "none" /\ stop) =>
          (late' = "dropped" /\ tasks' = tasks /\ workers' = workers
             /\ accepted' = accepted /\ exitcode' = exitcode)]_vars
  /\ [](late = "dropped" =>
          /\ executed[LateChunk.id] = 0
          /\ LateChunk.id \notin accepted
          /\ LateChunk.id \notin Ids(tasks)
          /\ LateChunk.id \notin Ids(compressed_chunks)
          /\ \A w \in DOMAIN workers : task[w].id # LateChunk.id)

\* The late client's task was dropped, and the run with workers is over.
SubmitAfterShutdownWitness ==
  /\ late = "dropped"
  /\ hw > 0
  /\ pc = "done"

(***************************************************************************)
(* C9.  Task failure isolation: a worker whose task throws goes back to    *)
(* its loop; once a task has failed, workers still terminate only on       *)
(* shutdown, shutdown() is never stuck, and when it has returned every     *)
(* task enqueued has been executed.                                        *)
(***************************************************************************)
TaskFailureIsolation ==
  /\ [][\A w \in DOMAIN workers :
          (workers[w] = "compress" /\ task[w].id \in failed' \ failed) =>
            workers'[w] = "lock"]_vars
  /\ [](failed # {} =>
          /\ \A w \in DOMAIN workers : workers[w] = "exited" => stop
          /\ (pc \in {"shutdown", "notify_all", "join"} /\ ~in_dtor) =>
               ENABLED ProgressNext
          /\ ShutdownReturned =>
               /\ \A id \in accepted : executed[id] > 0
               /\ tasks = <<>>
               /\ \A w \in DOMAIN workers : workers[w] = "exited")

\* The only worker's first task failed, it went on to run the second one,
\* and shutdown() has returned.
TaskFailureWitness ==
  /\ hw = 1
  /\ pc = "sort"
  /\ failed = {0}
  /\ Ids(compressed_chunks) = {1}

(***************************************************************************)
(* C10.  Result count after the barrier: once shutdown() has returned,     *)
(* compressed_chunks has as many entries as tasks were submitted and did   *)
(* not fail: one entry, with its own id, for each of them, and none for a  *)
(* failed task.                                                            *)
(***************************************************************************)
ResultCountAfterBarrier ==
  ShutdownReturned =>
    /\ Len(compressed_chunks) = Cardinality(accepted \ failed)
    /\ Cardinality(Ids(compressed_chunks)) = Len(compressed_chunks)
    /\ Ids(compressed_chunks) = accepted \ failed

(***************************************************************************)
(* C11.  shutdown() is idempotent: the call the destructor makes after     *)
(* main's call has returned is a single step that is always possible       *)
(* (it does not block), returns at once and changes nothing of the pool:   *)
(* stop, the queue, the workers, the locks and the results stay as they    *)
(* are.                                                                    *)
(***************************************************************************)
ShutdownIdempotent ==
  /\ [][(in_dtor /\ pc = "shutdown") =>
          (pc' = "done" /\ UNCHANGED <<poolvars, joinIdx, container>>)]_vars
  /\ []((in_dtor /\ pc = "shutdown") => (stop /\ ENABLED MShutdown))

\* The destructor's call has returned, in a run with workers and tasks.
ShutdownIdempotentWitness ==
  /\ in_dtor
  /\ pc = "done"
  /\ hw > 0
  /\ stop
  /\ accepted # {}

(***************************************************************************)
(* C12.  Chunking correctness: after the read phase, an input of L bytes   *)
(* has given ceil(L / CHUNK_SIZE) chunks (none when L = 0) with the ids    *)
(* 0, 1, ... in read order; every chunk has CHUNK_SIZE bytes but the last, *)
(* which has L mod CHUNK_SIZE bytes, or CHUNK_SIZE when that is 0; and the *)
(* chunks' data, one after the other, are the input.                       *)
(***************************************************************************)
RECURSIVE ConcatData(_)
ConcatData(cs) ==
  IF cs = <<>> THEN <<>> ELSE Head(cs).data \o ConcatData(Tail(cs))

ChunkingCorrect ==
  pc # "read" =>
    LET L == Len(input)
        n == (L + CHUNK_SIZE - 1) \div CHUNK_SIZE
    IN /\ Len(chunks) = n
       /\ id_counter = n
       /\ \A i \in 1..Len(chunks) :
            /\ chunks[i].id = i - 1
            /\ Len(chunks[i].data) =
                 IF i < n \/ L % CHUNK_SIZE = 0 THEN CHUNK_SIZE ELSE L % CHUNK_SIZE
       /\ ConcatData(chunks) = input

\* The read phase is over for an input of one full chunk and a shorter one.
ChunkingWitness ==
  /\ pc = "check"
  /\ Len(input) = CHUNK_SIZE + 1
  /\ Len(chunks) = 2

(***************************************************************************)
(* C13.  A truncated payload is fatal and decoding stops at the first      *)
(* failure: when fewer bytes are left than a frame's length field          *)
(* declares, or decompressData fails for a frame, the decompressor ends at *)
(* once with the failure status and its output as it was; after that it    *)
(* takes no further step: it reads and decodes no frame and writes         *)
(* nothing.                                                                *)
(***************************************************************************)
PayloadFailureStops ==
  /\ [][(dpc = "read_data" /\ Len(container) - dpos < compressedChunkSize) =>
          (dpc' = "done" /\ dexit' = 1 /\ output' = output
             /\ framesDecoded' = framesDecoded)]_vars
  /\ [][(dpc = "decode" /\ decompressData(compressedData).thrown) =>
          (dpc' = "done" /\ dexit' = 1 /\ output' = output /\ dpos' = dpos)]_vars
  /\ [](dexit = 1 => (dpc = "done" /\ ~ENABLED DecompressorNext))

\* A first frame was decoded and written, the second one failed.
PayloadFailureWitness ==
  /\ dexit = 1
  /\ framesDecoded = 1
  /\ output # <<>>

(***************************************************************************)
(* C14.  Empty input is a valid no-op: with an empty input the compressor  *)
(* creates no pool and submits no task, its container has no frame and it  *)
(* ends with status 0; the decompressor, given that container, decodes no  *)
(* frame, writes nothing and ends with status 0.                           *)
(***************************************************************************)
EmptyInputNoOp ==
  input = <<>> =>
    /\ pc \in {"read", "check", "done"}
    /\ chunks = <<>>
    /\ workers = <<>>
    /\ tasks = <<>>
    /\ accepted = {}
    /\ ~stop
    /\ container = <<>>
    /\ exitcode = (IF pc = "done" THEN 0 ELSE -1)
    /\ framesDecoded = 0
    /\ output = <<>>
    /\ dexit = (IF dpc = "done" THEN 0 ELSE -1)

\* Both programs have ended on the empty input.
EmptyInputWitness ==
  /\ input = <<>>
  /\ pc = "done"
  /\ dpc = "done"

(***************************************************************************)
(* C15.  The lock scope excludes the codec call: a worker that is in       *)
(* compressData holds neither queue_mutex nor results_mutex (so several    *)
(* workers can be in compressData at once), and a worker holds             *)
(* results_mutex exactly while it does its insert.                         *)
(***************************************************************************)
LockScopeExcludesCodec ==
  \A w \in DOMAIN workers :
    /\ workers[w] = "compress" => (queue_mutex # w /\ results_mutex # w)
    /\ workers[w] = "lock_results" => (queue_mutex # w /\ results_mutex # w)
    /\ results_mutex = w <=> workers[w] = "insert"
    /\ queue_mutex = w <=> workers[w] = "locked"

\* Two workers are in compressData at the same time.
LockScopeWitness ==
  \E v, w \in DOMAIN workers :
    /\ v # w
    /\ workers[v] = "compress"
    /\ workers[w] = "compress"

(***************************************************************************)
(* C16.  Insert mutual exclusion: at most one worker at a time is doing    *)
(* its insert into compressed_chunks, and while main sorts or reads the    *)
(* collection (after shutdown() has returned) no worker is running a task. *)
(***************************************************************************)
InsertMutualExclusion ==
  /\ Cardinality({w \in DOMAIN workers : workers[w] = "insert"}) <= 1
  /\ ShutdownReturned =>
       \A w \in DOMAIN workers :
         /\ workers[w] \notin {"compress", "lock_results", "insert"}
         /\ task[w] = NoTask

\* One worker is doing its insert while another waits for results_mutex.
InsertExclusionWitness ==
  \E v, w \in DOMAIN workers :
    /\ workers[v] = "insert"
    /\ workers[w] = "lock_results"

(***************************************************************************)
(* C17.  Exactly-once execution: every task enqueue accepted is at any     *)
(* time in exactly one place: in the queue, in the hands of one worker,    *)
(* or executed once; a task not accepted is in none.  When all workers     *)
(* have terminated, no task is left in the queue and every accepted task   *)
(* has been executed once.                                                 *)
(***************************************************************************)
InQueue(id) == Cardinality({i \in 1..Len(tasks) : tasks[i].id = id})

InHand(id) == Cardinality({w \in DOMAIN workers : task[w].id = id})

ExactlyOnce ==
  /\ \A id \in TaskIds :
       InQueue(id) + InHand(id) + executed[id] = (IF id \in accepted THEN 1 ELSE 0)
  /\ (workers # <<>> /\ \A w \in DOMAIN workers : workers[w] = "exited") =>
       /\ tasks = <<>>
       /\ \A id \in accepted : executed[id] = 1

\* Two workers have run the tasks of main and the late client's, and both
\* have terminated.
ExactlyOnceWitness ==
  /\ Len(workers) = 2
  /\ \A w \in DOMAIN workers : workers[w] = "exited"
  /\ late = "accepted"
  /\ Cardinality(accepted) = 3

(***************************************************************************)
(* C19.  Worker exit invariant: in every state in which some worker has    *)
(* terminated, stop is set and the task queue is empty: no worker exits    *)
(* with a task queued, and no task enters the queue after an exit.         *)
(***************************************************************************)
WorkerExitInvariant ==
  (\E w \in DOMAIN workers : workers[w] = "exited") => (stop /\ tasks = <<>>)

\* A worker has terminated while another one is still running a task, and
\* the late client's enqueue came after that and was dropped.
WorkerExitWitness ==
  /\ late = "dropped"
  /\ \E v, w \in DOMAIN workers :
       workers[v] = "exited" /\ workers[w] = "compress"

(***************************************************************************)
(* The compressor under fair scheduling.  Every thread that can take a     *)
(* step eventually takes one.  Spurious wakeups are left out: whoever      *)
(* leaves condition.wait here was woken by notify_one or notify_all.  The  *)
(* bytes of the input play no part in the schedule, so they are all 0.     *)
(***************************************************************************)
WorkerProgress(w) ==
  /\ w \in DOMAIN workers
  /\ \/ WLock(w)
     \/ WWait(w)
     \/ WExit(w)
     \/ WTake(w)
     \/ WCompress(w)
     \/ WLockResults(w)
     \/ WInsert(w)

NextLive ==
  \/ Main
  \/ \E w \in DOMAIN workers : WLock(w)
  \/ \E w \in DOMAIN workers : WWait(w)
  \/ \E w \in DOMAIN workers : WExit(w)
  \/ \E w \in DOMAIN workers : WTake(w)
  \/ \E w \in DOMAIN workers : WCompress(w)
  \/ \E w \in DOMAIN workers : WLockResults(w)
  \/ \E w \in DOMAIN workers : WInsert(w)

SpecLive ==
  /\ InitLate
  /\ [][NextLive]_vars
  /\ WF_vars(Main)
  /\ \A w \in 1..MaxWorkers : WF_vars(WorkerProgress(w))

(***************************************************************************)
(* C18.  Termination without lost wakeups: with at least one worker, under *)
(* fair scheduling, a worker blocked in condition.wait is eventually       *)
(* woken, and the run eventually reaches its end with shutdown() returned  *)
(* (when there was input, hence a pool), every worker terminated and every *)
(* task enqueued executed.  Tasks once accepted stay accepted and          *)
(* executions are never undone, so every task enqueued at any time is      *)
(* executed by then.                                                       *)
(***************************************************************************)
NoLostWakeups ==
  /\ \A w \in 1..MaxWorkers :
       (w \in DOMAIN workers /\ workers[w] = "waiting")
         ~> (w \in DOMAIN workers /\ workers[w] # "waiting")
  /\ (hw > 0) ~> /\ pc = "done"
                 /\ \A w \in DOMAIN workers : workers[w] = "exited"
                 /\ \A id \in accepted : executed[id] > 0
                 /\ chunks # <<>> =>
                      /\ stop
                      /\ ShutdownReturned
                      /\ Len(workers) = hw
                      /\ \A i \in 1..Len(chunks) : executed[chunks[i].id] > 0
  /\ [][/\ accepted \subseteq accepted'
        /\ \A id \in TaskIds : executed[id] <= executed'[id]]_vars

\* Both workers are blocked in condition.wait when main sets stop.
NoLostWakeupsWitness ==
  /\ pc = "notify_all"
  /\ Len(workers) = 2
  /\ \A w \in DOMAIN workers : workers[w] = "waiting"
  /\ accepted # {}

(***************************************************************************)
(* C20.  Barrier for every worker count: whatever hardware_concurrency()   *)
(* returned, 0 included, once shutdown() has returned the task queue is    *)
(* empty, and when main has written the container the number of frames     *)
(* written equals the number of chunks read.                               *)
(***************************************************************************)
BarrierAnyWorkerCount ==
  ShutdownReturned =>
    /\ tasks = <<>>
    /\ in_dtor => Len(written) = Len(chunks)

====
